---- MODULE Spec2Model ----
(***************************************************************************)
(* Model of pi-ralph's LoopManager (loop-manager.ts): the collection of    *)
(* tracked loops, the merge of polled records into it, the focus cursor    *)
(* and the poll scheduler with its in-flight guard.                        *)
(*                                                                         *)
(* Strings are atomic values; the three prefix tests the code performs     *)
(* (startsWith("("), startsWith("/"), startsWith("primary-")) are tables   *)
(* over the strings of the model.  JavaScript null is the value NULL.      *)
(***************************************************************************)
EXTENDS Integers, Sequences, FiniteSets, TLC

NULL == "NULL"

PRIMARY == "(primary)"

\* ------------------------------------------------------------------------
\* Bounds
\* ------------------------------------------------------------------------
\* Longest candidate list handed to mergePolled.
MaxPolled == 2

\* Longest candidate list of the merges interleaved with focus operations.
MaxShort == 1

\* Most overlay commands awaiting their result at once.
MaxRunning == 1

\* Most records in one output of `ralph loops list --json`.
MaxListed == 1

\* Cap of consecutivePollFailures.
MaxFailures == 2

\* Most history and diff fetches awaiting their result at once.
MaxFetches == 2

\* Most lines in the output of a history or diff command.
MaxLines == 3

\* ------------------------------------------------------------------------
\* String predicates
\* ------------------------------------------------------------------------
StartsWithParen(s) == s \in {"(primary)", "(in-place)"}

StartsWithSlash(s) == s \in {"/p", "/q", "/w"}

StartsWithPrimaryDash(s) == s \in {"primary-x"}

\* JavaScript truthiness of a string-or-null value.
Truthy(s) == s # NULL /\ s # ""

\* a ?? b
Coalesce(a, b) == IF a # NULL THEN a ELSE b

\* {...a, ...b}
Spread(a, b) ==
  [f \in (DOMAIN a) \cup (DOMAIN b) |-> IF f \in DOMAIN b THEN b[f] ELSE a[f]]

Min(a, b) == IF a < b THEN a ELSE b

Max(a, b) == IF a > b THEN a ELSE b

\* JavaScript % (the sign follows the dividend).
JsRem(a, n) == IF a >= 0 THEN a % n ELSE 0 - ((0 - a) % n)

RECURSIVE SeqsUpTo(_, _)
SeqsUpTo(S, n) ==
  IF n = 0 THEN {<<>>}
  ELSE LET shorter == SeqsUpTo(S, n - 1)
       IN  shorter \cup {Append(q, x) : q \in {r \in shorter : Len(r) = n - 1}, x \in S}

\* ------------------------------------------------------------------------
\* TrackedLoop
\* ------------------------------------------------------------------------
TrackedLoop(id, pid, directory, worktree, status, iteration, source, ptySession, seen) ==
  [id |-> id, pid |-> pid, directory |-> directory, worktree |-> worktree,
   status |-> status, iteration |-> iteration, maxIterations |-> 0,
   hat |-> NULL, elapsedSecs |-> 0, backend |-> NULL,
   source |-> source, ptySession |-> ptySession,
   removed |-> FALSE, lastSeenAt |-> seen]

\* A record as parseLoopsJson returns it (source "discovered", no session),
\* with the directory poll may have tagged it with.
Polled(id, directory, worktree, status, iteration) ==
  TrackedLoop(id, NULL, directory, worktree, status, iteration, "discovered", NULL, 0)

\* Candidate records handed to mergePolled.
PolledUniverse ==
  { Polled(PRIMARY, "/p", NULL, "running", 1),
    Polled(PRIMARY, "/q", NULL, "running", 1),
    Polled("primary-x", NULL, NULL, "running", 1),
    Polled("b", "/q", NULL, "running", 1),
    Polled("b", "(in-place)", NULL, "running", 1),
    Polled("b", "rel", NULL, "running", 1) }

PolledLists == SeqsUpTo(PolledUniverse, MaxPolled)

ShortLists == SeqsUpTo(PolledUniverse, MaxShort)

\* Parameters of the start call (ralph_loop tool -> upsertToolLoop).
ToolStarts ==
  { [id |-> "primary-x", pid |-> 11, directory |-> "/p", worktree |-> NULL, ptySession |-> "s1"] }

FocusIds == {PRIMARY, "primary-x", "b", "zzz"}

\* ------------------------------------------------------------------------
\* State
\* ------------------------------------------------------------------------
VARIABLES
  loops,          \* this.loops
  focusedIndex,   \* this.focusedIndex
  pollTimer,      \* this.pollTimer is set
  pollInFlight,   \* this.pollInFlight
  consecutivePollFailures,
  lastPollError,
  polls,          \* the poll() calls suspended at `await this.pi.exec(...)`, with their locals
  lastOp,         \* history: the operation that ran last
  lastRekeyed,    \* history: the identities the last mergePolled deleted to re-key them
  lastEmits,      \* history: number of emitChange() calls of the last operation
  lastWellFormed, \* history: directories whose output parsed, in the poll that ended last
  subscribed,     \* a RalphOverlay exists and listens (this.unsubscribe is set)
  activeLoopId,   \* RalphOverlay.activeLoopId
  session,        \* RalphOverlay.session
  sessionEphemeral,
  view,
  confirm,
  footerMessage,
  running,        \* the labels of the runAction calls suspended at their exec
  followers,      \* history: the follower sessions spawned and not disposed
  lastEffects,    \* history: notify, dispose, release, spawn, exec, file read of the last step, in order
  textLoading,    \* RalphOverlay.textLoading
  textViewLines,  \* RalphOverlay.textViewLines: NoLines, or the output of a fetch
  fetches,        \* the runTextView calls suspended at their exec, in the order they were issued
  textCommand,    \* history: the command of the runTextView call that entered the view
  textScroll      \* RalphOverlay.textScroll

textVars == <<textLoading, textViewLines, fetches, textCommand, textScroll>>

overlayVars == <<subscribed, activeLoopId, session, sessionEphemeral, view, confirm,
                 footerMessage, running, followers, lastEffects, textVars>>

pollVars == <<pollTimer, pollInFlight, consecutivePollFailures, lastPollError, polls>>

vars == <<loops, focusedIndex, pollTimer, pollInFlight, consecutivePollFailures,
          lastPollError, polls, lastOp, lastRekeyed, lastEmits, lastWellFormed,
          subscribed, activeLoopId, session, sessionEphemeral, view, confirm,
          footerMessage, running, followers, lastEffects,
          textLoading, textViewLines, fetches, textCommand, textScroll>>

\* ------------------------------------------------------------------------
\* Sequence helpers
\* ------------------------------------------------------------------------
\* Mutation of FindIndexById: the index is counted from 1.
FindIndexFromOne(ls, id) ==
  LET hits == {i \in 1..Len(ls) : ls[i].id = id}
  IN  IF hits = {} THEN 0 - 1
      ELSE CHOOSE i \in hits : \A j \in hits : i <= j

\* ls.findIndex((l) => l.id === id): 0-based, -1 if there is none.
FindIndexById(ls, id) ==
  LET hits == {i \in 1..Len(ls) : ls[i].id = id}
  IN  IF hits = {} THEN 0 - 1
      ELSE (CHOOSE i \in hits : \A j \in hits : i <= j) - 1

Ids(ls) == [i \in 1..Len(ls) |-> ls[i].id]

IdSet(ls) == {ls[i].id : i \in 1..Len(ls)}

\* ------------------------------------------------------------------------
\* JavaScript Map<string, TrackedLoop>: entries in insertion order
\* ------------------------------------------------------------------------
MapHas(m, k) == \E i \in 1..Len(m) : m[i].key = k

MapGet(m, k) == m[CHOOSE i \in 1..Len(m) : m[i].key = k].val

MapSet(m, k, v) ==
  IF MapHas(m, k)
  THEN [i \in 1..Len(m) |-> IF m[i].key = k THEN [key |-> k, val |-> v] ELSE m[i]]
  ELSE Append(m, [key |-> k, val |-> v])

MapDelete(m, k) == LET Keep(e) == e.key # k IN SelectSeq(m, Keep)

MapKeys(m) == [i \in 1..Len(m) |-> m[i].key]

RECURSIVE MapFromLoops(_)
MapFromLoops(ls) ==
  IF ls = <<>> THEN <<>>
  ELSE LET l == ls[Len(ls)]
       IN  MapSet(MapFromLoops(SubSeq(ls, 1, Len(ls) - 1)), l.id, l)

\* Mutation of GetLoops: the removed records are never filtered out.
GetLoopsUnfiltered(ls, includeRemoved) == ls

\* ------------------------------------------------------------------------
\* getLoops
\* ------------------------------------------------------------------------
GetLoops(ls, includeRemoved) ==
  IF includeRemoved THEN ls
  ELSE LET Active(l) == ~l.removed IN SelectSeq(ls, Active)

\* ------------------------------------------------------------------------
\* mergePolled
\* ------------------------------------------------------------------------
\* Mutation of RekeyMatches: compares the worktree instead of the directory.
RekeyMatchesWorktree(existId, existLoop, next) ==
  /\ existLoop.source = "tool"
  /\ StartsWithPrimaryDash(existId)
  /\ existLoop.worktree = next.directory

\* The test of the re-key search (lines 267-271).
RekeyMatches(existId, existLoop, next) ==
  /\ existLoop.source = "tool"
  /\ StartsWithPrimaryDash(existId)
  /\ existLoop.directory = next.directory

\* for (const [existId, existLoop] of byId) ... break: the first matching key, or NULL.
RekeyTarget(byId, next) ==
  LET hits == {i \in 1..Len(byId) : RekeyMatches(byId[i].key, byId[i].val, next)}
  IN  IF hits = {} THEN NULL
      ELSE byId[CHOOSE i \in hits : \A j \in hits : i <= j].key

\* Lines 292-294.
MergedDirectory(existing, next) ==
  IF Truthy(next.directory) /\ ~StartsWithParen(next.directory)
  THEN next.directory
  ELSE existing.directory

\* Line 295.
MergedWorktree(existing, next) == Coalesce(next.worktree, existing.worktree)

\* Mutation of MergeExisting: source and ptySession are not restored from the
\* existing record.
MergeExistingFromNext(existing, next, t) ==
  [Spread(existing, next) EXCEPT
     !.directory = IF Truthy(next.directory) /\ ~StartsWithParen(next.directory)
                   THEN next.directory ELSE existing.directory,
     !.worktree = Coalesce(next.worktree, existing.worktree),
     !.removed = FALSE,
     !.lastSeenAt = t]

\* Lines 297-306.
MergeExisting(existing, next, t) ==
  [Spread(existing, next) EXCEPT
     !.directory = MergedDirectory(existing, next),
     !.worktree = MergedWorktree(existing, next),
     !.source = existing.source,
     !.ptySession = existing.ptySession,
     !.removed = FALSE,
     !.lastSeenAt = t]

\* Lines 282-286.
InsertNew(next, t) == [next EXCEPT !.removed = FALSE, !.lastSeenAt = t]

\* One iteration of the loop over the candidates (lines 259-306).
\* st = [byId, seen, rekeyed]
MergeOne(st, next, t) ==
  LET found == MapHas(st.byId, next.id)
      target == IF ~found /\ next.id = PRIMARY THEN RekeyTarget(st.byId, next) ELSE NULL
      byId1 == IF target # NULL THEN MapDelete(st.byId, target) ELSE st.byId
      hasExisting == found \/ target # NULL
      existing == IF found THEN MapGet(st.byId, next.id)
                  ELSE IF target # NULL THEN MapGet(st.byId, target)
                  ELSE next
  IN  [byId |-> IF hasExisting
                THEN MapSet(byId1, next.id, MergeExisting(existing, next, t))
                ELSE MapSet(byId1, next.id, InsertNew(next, t)),
       seen |-> st.seen \cup {next.id},
       rekeyed |-> IF target # NULL THEN Append(st.rekeyed, target) ELSE st.rekeyed]

RECURSIVE MergeCandidates(_, _, _)
MergeCandidates(st, polled, t) ==
  IF polled = <<>> THEN st
  ELSE MergeCandidates(MergeOne(st, Head(polled), t), Tail(polled), t)

\* Mutation of ShouldMarkRemoved: the source is not looked at.
MarkAnyUnseen(loop, seen) == loop.id \notin seen

\* Mutation of ShouldMarkRemoved: the seen set is not looked at.
MarkEveryDiscovered(loop, seen) == loop.source # "tool"

\* Line 313.
ShouldMarkRemoved(loop, seen) == loop.id \notin seen /\ loop.source # "tool"

\* Mutation of MarkRemoved: vanished records are deleted from the map.
DropVanished(byId, seen) ==
  LET Keep(e) == ~(e.val.id \notin seen /\ e.val.source # "tool")
  IN  SelectSeq(byId, Keep)

\* Lines 312-316.
MarkRemoved(byId, seen) ==
  [i \in 1..Len(byId) |->
     IF ShouldMarkRemoved(byId[i].val, seen)
     THEN [byId[i] EXCEPT !.val.removed = TRUE]
     ELSE byId[i]]

\* Mutation of OrderedIds: the new identities come first.
NewIdsFirst(prevOrder, byId) ==
  LET InMap(id) == MapHas(byId, id)
      kept == SelectSeq(prevOrder, InMap)
      NotKept(id) == \A i \in 1..Len(kept) : kept[i] # id
  IN  SelectSeq(MapKeys(byId), NotKept) \o kept

\* Lines 319-324.
OrderedIds(prevOrder, byId) ==
  LET InMap(id) == MapHas(byId, id)
      kept == SelectSeq(prevOrder, InMap)
      NotKept(id) == \A i \in 1..Len(kept) : kept[i] # id
  IN  kept \o SelectSeq(MapKeys(byId), NotKept)

\* Lines 329-331.
ClampFocus(ls, idx) ==
  LET active == GetLoops(ls, FALSE)
  IN  IF Len(active) = 0 THEN 0 ELSE Min(idx, Len(active) - 1)

\* The whole of mergePolled as a function of the collection, the candidates
\* and the clock: the new collection and the identities re-keyed on the way.
MergeResult(ls, polled, t) ==
  LET st == MergeCandidates([byId |-> MapFromLoops(ls), seen |-> {}, rekeyed |-> <<>>],
                            polled, t)
      byId == MarkRemoved(st.byId, st.seen)
      ordered == OrderedIds(Ids(ls), byId)
  IN  [loops |-> [i \in 1..Len(ordered) |-> MapGet(byId, ordered[i])],
       rekeyed |-> st.rekeyed]

DoMerge(polled) ==
  \E r \in {MergeResult(loops, polled, 0)} :
      /\ loops' = r.loops
      /\ focusedIndex' = ClampFocus(r.loops, focusedIndex)
      /\ lastRekeyed' = r.rekeyed

MergePolledFrom(lists) ==
  \E polled \in lists :
    /\ DoMerge(polled)
    /\ lastOp' = "mergePolled"
    /\ lastEmits' = 1
    /\ lastWellFormed' = 0
    /\ UNCHANGED overlayVars
    /\ UNCHANGED pollVars

MergePolled == MergePolledFrom(PolledLists)

MergePolledShort == MergePolledFrom(ShortLists)

\* Candidates that differ in their worktree: absent, empty, and two paths.
WorktreeUniverse ==
  { Polled(id, "/q", w, "running", 1) : id \in {"b", "c"}, w \in {NULL, "", "/w", "/p"} }

WorktreeLists == SeqsUpTo(WorktreeUniverse, MaxShort)

MergePolledWorktrees == MergePolledFrom(WorktreeLists)

\* ------------------------------------------------------------------------
\* upsertToolLoop
\* ------------------------------------------------------------------------
\* Mutation of UpsertResult: the record is always pushed.
UpsertAlwaysPush(ls, loop, t) ==
  Append(ls, TrackedLoop(loop.id, loop.pid, loop.directory, Coalesce(loop.worktree, NULL),
                         "running", 0, "tool", loop.ptySession, t))

UpsertResult(ls, loop, t) ==
  LET existingIdx == FindIndexById(ls, loop.id)
      next == TrackedLoop(loop.id, loop.pid, loop.directory, Coalesce(loop.worktree, NULL),
                          "running", 0, "tool", loop.ptySession, t)
  IN  IF existingIdx >= 0
      THEN [ls EXCEPT ![existingIdx + 1] =
              [Spread(ls[existingIdx + 1], next) EXCEPT
                 !.source = "tool", !.ptySession = loop.ptySession,
                 !.removed = FALSE, !.lastSeenAt = t]]
      ELSE Append(ls, next)

\* Lines 228-232: the first active loop takes the focus.
UpsertFocus(ls, loop, idx) ==
  IF FindIndexById(ls, loop.id) < 0 /\ Len(GetLoops(UpsertResult(ls, loop, 0), FALSE)) = 1
  THEN 0 ELSE idx

UpsertToolLoop ==
  \E loop \in ToolStarts :
    LET next == UpsertResult(loops, loop, 0)
    IN  /\ loops' = next
        /\ focusedIndex' = UpsertFocus(loops, loop, focusedIndex)
        /\ lastOp' = "upsertToolLoop"
        /\ lastRekeyed' = <<>>
        /\ lastEmits' = 1
        /\ lastWellFormed' = 0
        /\ UNCHANGED overlayVars
        /\ UNCHANGED pollVars

\* ------------------------------------------------------------------------
\* Focus tracker
\* ------------------------------------------------------------------------
\* getFocused: clamps the cursor as a side effect.
FocusedPos(ls, idx) ==
  LET active == GetLoops(ls, FALSE)
  IN  Min(Max(idx, 0), Len(active) - 1)

FocusedOf(ls, idx) ==
  LET active == GetLoops(ls, FALSE)
  IN  IF Len(active) = 0 THEN NULL ELSE active[FocusedPos(ls, idx) + 1].id

GetFocused ==
  /\ focusedIndex' = IF Len(GetLoops(loops, FALSE)) = 0 THEN focusedIndex
                     ELSE FocusedPos(loops, focusedIndex)
  /\ lastOp' = "getFocused"
  /\ lastRekeyed' = <<>>
  /\ lastEmits' = 0
  /\ lastWellFormed' = 0
  /\ UNCHANGED overlayVars
  /\ UNCHANGED <<loops, pollVars>>

\* Mutation of CycleIndex: n is not added before the remainder is taken.
CycleIndexNoWrap(idx, direction, n) == JsRem(idx + direction, n)

CycleIndex(idx, direction, n) == JsRem(idx + direction + n, n)

CycleFocus ==
  \E direction \in {1, 0 - 1} :
    LET n == Len(GetLoops(loops, FALSE))
    IN  /\ focusedIndex' = IF n = 0 THEN 0 ELSE CycleIndex(focusedIndex, direction, n)
        /\ lastOp' = "cycleFocus"
        /\ lastRekeyed' = <<>>
        /\ lastEmits' = 1
        /\ lastWellFormed' = 0
        /\ UNCHANGED overlayVars
        /\ UNCHANGED <<loops, pollVars>>

SetFocusById ==
  \E id \in FocusIds :
    LET idx == FindIndexById(GetLoops(loops, FALSE), id)
    IN  /\ focusedIndex' = IF idx >= 0 THEN idx ELSE focusedIndex
        /\ lastOp' = "setFocusById"
        /\ lastRekeyed' = <<>>
        /\ lastEmits' = IF idx >= 0 THEN 1 ELSE 0
        /\ lastWellFormed' = 0
        /\ UNCHANGED overlayVars
        /\ UNCHANGED <<loops, pollVars>>

\* ------------------------------------------------------------------------
\* parseLoopsJson
\* ------------------------------------------------------------------------
\* JSON values of a raw record's fields, by their typeof.
Undef == [type |-> "undefined", str |-> "", num |-> 0]

Str(s) == [type |-> "string", str |-> s, num |-> 0]

Num(n) == [type |-> "number", str |-> "", num |-> n]

IsStr(v) == v.type = "string"

IsNum(v) == v.type = "number"

\* A raw record with none of the fields the parser reads.
EmptyRaw ==
  [loop_id |-> Undef, id |-> Undef, state |-> Undef, status |-> Undef, pid |-> Undef,
   worktree |-> Undef, location |-> Undef, directory |-> Undef, path |-> Undef,
   workspace |-> Undef, worktree_path |-> Undef, iteration |-> Undef,
   max_iterations |-> Undef, maxIterations |-> Undef, elapsed_secs |-> Undef,
   elapsedSecs |-> Undef, hat |-> Undef, backend |-> Undef]

\* Line 374.
IsAbsPath(s) == s # NULL /\ s # "" /\ StartsWithSlash(s)

StrOrNull(v) == IF IsStr(v) THEN v.str ELSE NULL

\* Lines 353-422: the record for one element of the array; <<>> if it has no
\* usable identity.
ParseRaw(raw, t) ==
  LET id == IF IsStr(raw.loop_id) THEN raw.loop_id.str
            ELSE IF IsStr(raw.id) THEN raw.id.str ELSE NULL
      workspace == StrOrNull(raw.workspace)
      worktreePath == StrOrNull(raw.worktree_path)
  IN  IF ~Truthy(id) THEN <<>>
      ELSE << [id |-> id,
               pid |-> IF IsNum(raw.pid) THEN raw.pid.num ELSE NULL,
               directory |->
                 IF IsStr(raw.directory) /\ IsAbsPath(raw.directory.str) THEN raw.directory.str
                 ELSE IF IsStr(raw.path) /\ IsAbsPath(raw.path.str) THEN raw.path.str
                 ELSE IF IsAbsPath(workspace) THEN workspace
                 ELSE IF IsAbsPath(worktreePath) THEN worktreePath
                 ELSE NULL,
               worktree |-> StrOrNull(raw.worktree),
               status |-> IF IsStr(raw.state) THEN raw.state.str
                          ELSE IF IsStr(raw.status) THEN raw.status.str ELSE "unknown",
               iteration |-> IF IsNum(raw.iteration) THEN raw.iteration.num ELSE 0,
               maxIterations |-> IF IsNum(raw.max_iterations) THEN raw.max_iterations.num
                                 ELSE IF IsNum(raw.maxIterations) THEN raw.maxIterations.num
                                 ELSE 0,
               hat |-> StrOrNull(raw.hat),
               elapsedSecs |-> IF IsNum(raw.elapsed_secs) THEN raw.elapsed_secs.num
                               ELSE IF IsNum(raw.elapsedSecs) THEN raw.elapsedSecs.num
                               ELSE 0,
               backend |-> StrOrNull(raw.backend),
               source |-> "discovered",
               ptySession |-> NULL,
               removed |-> FALSE,
               lastSeenAt |-> t] >>

RECURSIVE ParseItems(_, _)
ParseItems(items, t) ==
  IF items = <<>> THEN <<>>
  ELSE ParseRaw(Head(items), t) \o ParseItems(Tail(items), t)

\* Lines 336-348: the trimmed stdout is empty, is no JSON ("garbage"), is JSON
\* but no array ("object"), or is an array.  ok = FALSE stands for the throw.
ParseLoopsJson(stdout, t) ==
  IF stdout.kind = "empty" THEN [ok |-> TRUE, loops |-> <<>>]
  ELSE IF stdout.kind = "array" THEN [ok |-> TRUE, loops |-> ParseItems(stdout.items, t)]
  ELSE [ok |-> FALSE, loops |-> <<>>]

\* ------------------------------------------------------------------------
\* poll
\* ------------------------------------------------------------------------
\* process.cwd()
Cwd == "/p"

\* Records `ralph loops list --json` prints.
RawUniverse ==
  { [EmptyRaw EXCEPT !.loop_id = Str(PRIMARY), !.state = Str("running"), !.iteration = Num(1)],
    [EmptyRaw EXCEPT !.id = Str("b"), !.status = Str("running"), !.iteration = Num(1),
                     !.directory = Str("/q")] }

\* What one `ralph loops list --json` invocation can come back with.
ExecOutcomes ==
  {[throws |-> TRUE, code |-> 1, stdout |-> [kind |-> "empty", items |-> <<>>]]}
  \cup {[throws |-> FALSE, code |-> 1, stdout |-> [kind |-> "empty", items |-> <<>>]]}
  \cup {[throws |-> FALSE, code |-> 0, stdout |-> [kind |-> k, items |-> <<>>]] :
          k \in {"empty", "garbage", "object"}}
  \cup {[throws |-> FALSE, code |-> 0, stdout |-> [kind |-> "array", items |-> items]] :
          items \in SeqsUpTo(RawUniverse, MaxListed) \ {<<>>}}

\* Lines 103-108: the distinct truthy directories of the tracked loops, in
\* insertion order; the working directory if there is none.
RECURSIVE KnownDirs(_)
KnownDirs(ls) ==
  IF ls = <<>> THEN <<>>
  ELSE LET before == KnownDirs(SubSeq(ls, 1, Len(ls) - 1))
           d == ls[Len(ls)].directory
       IN  IF Truthy(d) /\ d \notin {before[i] : i \in 1..Len(before)}
           THEN Append(before, d) ELSE before

PollDirs(ls) == IF KnownDirs(ls) = <<>> THEN <<Cwd>> ELSE KnownDirs(ls)

\* Lines 128-130.
TagDirectory(parsed, dir) ==
  [i \in 1..Len(parsed) |->
     IF ~Truthy(parsed[i].directory) THEN [parsed[i] EXCEPT !.directory = dir] ELSE parsed[i]]

\* Lines 139-141.
DedupById(allParsed) ==
  LET byId == MapFromLoops(allParsed)
  IN  [i \in 1..Len(byId) |-> byId[i].val]

\* Mutation of FlagAfterPoll: the flag is left as the poll set it.
FlagLeftSet == TRUE

\* Line 165: the finally block.
FlagAfterPoll == FALSE

\* Mutation of PollGuard: the flag is not looked at.
GuardIgnored(inFlight) == FALSE

\* Line 97.
PollGuard(inFlight) == inFlight

RemoveAt(q, k) == SubSeq(q, 1, k - 1) \o SubSeq(q, k + 1, Len(q))

\* poll() up to its first await: the guard, the flag, the directories, and the
\* first exec issued.
PollCall ==
  IF PollGuard(pollInFlight)
  THEN /\ lastOp' = "pollRejected"
       /\ UNCHANGED <<loops, focusedIndex, pollInFlight, consecutivePollFailures,
                      lastPollError, polls>>
  ELSE /\ pollInFlight' = TRUE
       /\ polls' = Append(polls, [dirs |-> PollDirs(loops), pos |-> 1,
                                  allParsed |-> <<>>, anySuccess |-> FALSE,
                                  wellFormed |-> 0])
       /\ lastOp' = "pollBegun"
       /\ UNCHANGED <<loops, focusedIndex, consecutivePollFailures, lastPollError>>

\* poll() called on demand (session start, the overlay after an action).
PollOnDemand ==
  /\ PollCall
  /\ lastRekeyed' = <<>>
  /\ lastEmits' = 0
  /\ lastWellFormed' = 0
  /\ UNCHANGED overlayVars
  /\ UNCHANGED pollTimer

\* startPolling: a poll at once, then the interval timer.
StartPolling ==
  /\ ~pollTimer
  /\ PollCall
  /\ pollTimer' = TRUE
  /\ lastRekeyed' = <<>>
  /\ lastEmits' = 0
  /\ lastWellFormed' = 0
  /\ UNCHANGED overlayVars

StopPolling ==
  /\ pollTimer
  /\ pollTimer' = FALSE
  /\ lastOp' = "stopPolling"
  /\ lastRekeyed' = <<>>
  /\ lastEmits' = 0
  /\ lastWellFormed' = 0
  /\ UNCHANGED overlayVars
  /\ UNCHANGED <<loops, focusedIndex, pollInFlight, consecutivePollFailures,
                 lastPollError, polls>>

\* The interval callback.
TimerTick ==
  /\ pollTimer
  /\ PollCall
  /\ lastRekeyed' = <<>>
  /\ lastEmits' = 0
  /\ lastWellFormed' = 0
  /\ UNCHANGED overlayVars
  /\ UNCHANGED pollTimer

\* Mutation of PollFails: the failure is recorded but not counted.
PollFailsUncounted(k, msg) ==
  /\ consecutivePollFailures < MaxFailures
  /\ consecutivePollFailures' = consecutivePollFailures
  /\ lastPollError' = msg
  /\ pollInFlight' = FlagAfterPoll
  /\ polls' = RemoveAt(polls, k)
  /\ lastRekeyed' = <<>>
  /\ lastEmits' = 0
  /\ UNCHANGED <<loops, focusedIndex>>

\* The catch block (lines 159-163) and the failure return (lines 147-151),
\* each followed by the finally block.
PollFails(k, msg) ==
  /\ consecutivePollFailures < MaxFailures
  /\ consecutivePollFailures' = consecutivePollFailures + 1
  /\ lastPollError' = msg
  /\ pollInFlight' = FlagAfterPoll
  /\ polls' = RemoveAt(polls, k)
  /\ lastRekeyed' = <<>>
  /\ lastEmits' = 0
  /\ UNCHANGED <<loops, focusedIndex>>

\* An exec of a suspended poll returns; the poll runs on to its next await or
\* to its end (lines 115-166).
ExecReturnsFrom(outcomes) ==
  \E k \in 1..Len(polls) : \E out \in outcomes :
    LET p == polls[k]
        dir == p.dirs[p.pos]
        parsed == IF out.code = 0 THEN ParseLoopsJson(out.stdout, 0)
                  ELSE [ok |-> FALSE, loops |-> <<>>]
        allParsed == IF parsed.ok THEN p.allParsed \o TagDirectory(parsed.loops, dir)
                     ELSE p.allParsed
        anySuccess == p.anySuccess \/ out.code = 0
        wellFormed == p.wellFormed + (IF parsed.ok THEN 1 ELSE 0)
    IN  /\ UNCHANGED pollTimer
        /\ lastWellFormed' = IF out.throws \/ p.pos = Len(p.dirs) THEN wellFormed ELSE 0
        /\ UNCHANGED overlayVars
        /\ IF out.throws
           THEN PollFails(k, "exec failed") /\ lastOp' = "pollThrew"
           ELSE IF p.pos < Len(p.dirs)
           THEN /\ polls' = [polls EXCEPT ![k] = [p EXCEPT !.pos = p.pos + 1,
                                                           !.allParsed = allParsed,
                                                           !.anySuccess = anySuccess,
                                                           !.wellFormed = wellFormed]]
                /\ lastOp' = "pollExec"
                /\ lastRekeyed' = <<>>
                /\ lastEmits' = 0
                /\ UNCHANGED <<loops, focusedIndex, pollInFlight, consecutivePollFailures,
                               lastPollError>>
           ELSE IF ~anySuccess
           THEN PollFails(k, "all poll attempts failed") /\ lastOp' = "pollFailed"
           ELSE /\ DoMerge(DedupById(allParsed))
                /\ consecutivePollFailures' = 0
                /\ lastPollError' = NULL
                /\ pollInFlight' = FlagAfterPoll
                /\ polls' = RemoveAt(polls, k)
                /\ lastOp' = "pollMerged"
                /\ lastEmits' = 1

ExecReturns == ExecReturnsFrom(ExecOutcomes)

\* Raw records that differ in their directory-like fields: absolute paths,
\* bare names, display labels, the empty string.
PathRaws ==
  { [EmptyRaw EXCEPT !.id = Str("b"), !.directory = Str("/q")],
    [EmptyRaw EXCEPT !.id = Str("b"), !.directory = Str("(in-place)")],
    [EmptyRaw EXCEPT !.id = Str("b"), !.directory = Str("rel"), !.path = Str("/q")],
    [EmptyRaw EXCEPT !.id = Str("b"), !.directory = Str(""), !.workspace = Str("/w")],
    [EmptyRaw EXCEPT !.id = Str("b"), !.path = Str("rel"), !.worktree_path = Str("/q")],
    [EmptyRaw EXCEPT !.id = Str("b"), !.location = Str("chipper-crane"),
                     !.workspace = Str("chipper-crane")],
    [EmptyRaw EXCEPT !.id = Str("c"), !.worktree = Str("/w")],
    [EmptyRaw EXCEPT !.id = Str("c"), !.worktree = Str("chipper-crane")],
    [EmptyRaw EXCEPT !.id = Str("c"), !.worktree = Str("(in-place)"), !.directory = Num(1)],
    [EmptyRaw EXCEPT !.id = Str("c"), !.worktree = Str("")] }

\* `ralph loops list --json` printing an array of such records.
PathOutcomes ==
  {[throws |-> FALSE, code |-> 0, stdout |-> [kind |-> "array", items |-> items]] :
     items \in SeqsUpTo(PathRaws, MaxListed) \ {<<>>}}

ExecReturnsPaths == ExecReturnsFrom(PathOutcomes)

\* ------------------------------------------------------------------------
\* RalphOverlay (src/overlay.ts)
\* ------------------------------------------------------------------------
\* The rendering is left out.  The text buffer of the history and diff views
\* (textLoading, textViewLines, textScroll) is read by no handler but the
\* scroll keys of those views; SpecOverlay does not keep it, SpecText does.  In SpecOverlay
\* the poll that runAction awaits after its command shows only through the
\* merge that ends it (OverlayMerge); SpecAction has the poll itself.

\* process.env.HOME
Home == "/home"

UnresolvedMsg == "Unable to resolve primary loop id (.ralph/current-loop-id missing)"

\* `${label}...`, `${label} OK`, `${label} failed: ${detail}`
Dots(label) ==
  CASE label = "Stop" -> "Stop..."
    [] label = "Merge" -> "Merge..."
    [] label = "Discard" -> "Discard..."
    [] label = "Retry" -> "Retry..."

Ok(label) ==
  CASE label = "Stop" -> "Stop OK"
    [] label = "Merge" -> "Merge OK"
    [] label = "Discard" -> "Discard OK"
    [] label = "Retry" -> "Retry OK"

Failed(label) ==
  CASE label = "Stop" -> "Stop failed: exit code 1"
    [] label = "Merge" -> "Merge failed: exit code 1"
    [] label = "Discard" -> "Discard failed: exit code 1"
    [] label = "Retry" -> "Retry failed: exit code 1"

\* What readFileSync(`${dir}/.ralph/current-loop-id`).trim() gives: NULL when
\* the read throws, else the trimmed content.
FileContents == {NULL, "", "real-1"}

\* The contents to tell apart for the collection ls: the file is read only for
\* a "(primary)" record with a directory.
ContentsFor(ls) ==
  IF \E i \in 1..Len(ls) : ls[i].id = PRIMARY /\ Truthy(Coalesce(ls[i].directory, ls[i].worktree))
  THEN FileContents ELSE {NULL}

\* The keys handleInput tells apart; "x" is any other key.
Keys == {"escape", "left", "right", "y", "n", "s", "m", "d", "r", "H", "D", "a", "q", "x"}

\* The keys whose handling may use the content of the file.
ResolvingKeys == {"left", "right", "s", "m", "d", "r", "H", "D"}

\* What the polls of an open overlay's session bring in.
OverlayLists ==
  SeqsUpTo({Polled(PRIMARY, "/p", NULL, "running", 1), Polled("b", "/q", NULL, "running", 1)},
           MaxShort)

\* Sessions: the caller's PtyTerminalSession handed over at start, or a
\* follower the overlay constructs for `ralph loops logs ${loopId} --follow`.
NoSession == [owner |-> "none", pty |-> NULL, loopId |-> NULL, cwd |-> NULL]

OwnedSession(ptySession) == [owner |-> "caller", pty |-> ptySession, loopId |-> NULL, cwd |-> NULL]

FollowerSession(loopId, cwd) == [owner |-> "overlay", pty |-> NULL, loopId |-> loopId, cwd |-> cwd]

NoConfirm == [action |-> NULL, label |-> NULL, command |-> <<>>]

\* The text buffer: textViewLines = [] is NoLines; otherwise the lines are
\* told by the command whose output they are and its exit code (the error
\* lines of a failed command name the command too, line 192).
NoLines == [command |-> <<>>, code |-> 0, count |-> 0]

\* Lines 192-197: two lines for a failed command; for a successful one the
\* lines of its output, at least one ("(no output)").
OutputLines(command, out) == [command |-> command, code |-> out.code, count |-> out.count]

\* What a history or diff command can come back with: its exit code and the
\* number of lines textViewLines gets.
FetchOutcomes ==
  {[code |-> 1, count |-> 2]} \cup {[code |-> 0, count |-> n] : n \in 1..MaxLines}

\* The keys that scroll a text view; k and j are handled as up and down.
ScrollKeys == {"up", "down", "shift+up", "shift+down"}

\* Lines 250-269.
ScrollTo(scroll, count, data) ==
  CASE data = "up" -> Max(0, scroll - 1)
    [] data = "down" -> Min(Max(0, count - 1), scroll + 1)
    [] data = "shift+up" -> Max(0, scroll - 10)
    [] data = "shift+down" -> Min(Max(0, count - 1), scroll + 10)

\* A runTextView call suspended at its exec.  latest is history: no other
\* runTextView call was made since.
Fetch(command) == [command |-> command, latest |-> TRUE]

\* What a step does to the world outside the overlay's fields.  A notify is
\* one run of the change listeners; active and focused are what getLoops()
\* and getFocused() give a listener that calls them inside the callback.
Effect(op) ==
  [op |-> op, session |-> NoSession, command |-> <<>>, cwd |-> NULL, content |-> NULL,
   active |-> <<>>, focused |-> NULL]

Disposed(s) == [Effect("dispose") EXCEPT !.session = s]

Spawned(s) ==
  [Effect("spawn") EXCEPT !.session = s,
                          !.command = <<"loops", "logs", s.loopId, "--follow">>,
                          !.cwd = s.cwd]

Executed(command, cwd) == [Effect("exec") EXCEPT !.command = command, !.cwd = cwd]

\* this.session = null on a session that is not disposed.
Released(s) == [Effect("release") EXCEPT !.session = s]

ReadIdFile(content) == [Effect("read") EXCEPT !.content = content]

Notified(ls, idx) ==
  [Effect("notify") EXCEPT !.active = Ids(GetLoops(ls, FALSE)), !.focused = FocusedOf(ls, idx)]

\* The loop manager and the overlay as one record, for the handlers below.
Machine ==
  [loops |-> loops, focusedIndex |-> focusedIndex, subscribed |-> subscribed,
   activeLoopId |-> activeLoopId, session |-> session, sessionEphemeral |-> sessionEphemeral,
   view |-> view, confirm |-> confirm, footerMessage |-> footerMessage, running |-> running,
   textLoading |-> textLoading, textViewLines |-> textViewLines, fetches |-> fetches,
   textCommand |-> textCommand, textScroll |-> textScroll, effects |-> <<>>]

\* loopManager.getFocused(): the cursor is clamped as a side effect.
GetFocusedIn(m) ==
  [m EXCEPT !.focusedIndex = IF Len(GetLoops(m.loops, FALSE)) = 0 THEN @
                             ELSE FocusedPos(m.loops, @)]

HasFocused(m) == Len(GetLoops(m.loops, FALSE)) > 0

FocusedLoop(m) == GetLoops(m.loops, FALSE)[FocusedPos(m.loops, m.focusedIndex) + 1]

\* Mutation of ResolveLoopIdForCli: the identity is used as it is.
ResolveAsIs(loop, content) == loop.id

\* Lines 40-53.
ResolveLoopIdForCli(loop, content) ==
  IF loop.id # PRIMARY THEN loop.id
  ELSE IF ~Truthy(Coalesce(loop.directory, loop.worktree)) THEN NULL
  ELSE IF content = NULL THEN NULL
  ELSE IF content # "" THEN content
  ELSE NULL

\* Whether resolveLoopIdForCli gets as far as reading the file.
ReadsIdFile(loop) == loop.id = PRIMARY /\ Truthy(Coalesce(loop.directory, loop.worktree))

NoteRead(m, loop, content) ==
  IF ReadsIdFile(loop) THEN [m EXCEPT !.effects = Append(@, ReadIdFile(content))] ELSE m

\* Mutation of DisposeSessionIfEphemeral: whatever session is attached is disposed.
DisposeSessionAlways(m) ==
  [m EXCEPT !.effects = IF m.session = NoSession THEN @ ELSE Append(@, Disposed(m.session)),
            !.session = NoSession,
            !.sessionEphemeral = FALSE]

\* Lines 116-122.
DisposeSessionIfEphemeral(m) ==
  [m EXCEPT !.effects = IF m.session = NoSession THEN @
                        ELSE IF m.sessionEphemeral THEN Append(@, Disposed(m.session))
                        ELSE Append(@, Released(m.session)),
            !.session = NoSession,
            !.sessionEphemeral = FALSE]

\* Mutation of DropForSwitch: the attached session is left as it is.
DropNothing(m) == m

\* Lines 133-134: switching loops.
DropForSwitch(m) == DisposeSessionIfEphemeral(m)

\* Mutation of HasOwnedSession: no record is taken to own a session.
NeverOwned(loop) == FALSE

\* Line 139.
HasOwnedSession(loop) == loop.source = "tool" /\ Truthy(loop.ptySession)

\* Lines 124-175.
EnsureFocusedSession(m0, content) ==
  LET m == GetFocusedIn(m0)
  IN  IF ~HasFocused(m)
      THEN DisposeSessionIfEphemeral([m EXCEPT !.activeLoopId = NULL])
      ELSE
        LET focused == FocusedLoop(m)
            d == [DropForSwitch(m) EXCEPT !.activeLoopId = focused.id]
            loopId == ResolveLoopIdForCli(focused, content)
            r == NoteRead(d, focused, content)
        IN  IF m.activeLoopId = focused.id THEN m
            ELSE IF HasOwnedSession(focused)
            THEN [d EXCEPT !.footerMessage = NULL,
                           !.session = OwnedSession(focused.ptySession),
                           !.sessionEphemeral = FALSE]
            ELSE IF ~Truthy(loopId)
            THEN [r EXCEPT !.footerMessage = UnresolvedMsg,
                           !.session = NoSession,
                           !.sessionEphemeral = FALSE]
            ELSE LET follower == FollowerSession(loopId, Coalesce(focused.directory, Home))
                 IN  [r EXCEPT !.footerMessage = NULL,
                               !.session = follower,
                               !.sessionEphemeral = TRUE,
                               !.effects = Append(@, Spawned(follower))]

\* emitChange(): the listeners run once, the overlay's (lines 100-103) among
\* them while it is open.
EmitChange(m0, content) ==
  LET m == [m0 EXCEPT !.effects = Append(@, Notified(m0.loops, m0.focusedIndex))]
  IN  IF m.subscribed THEN EnsureFocusedSession(m, content) ELSE m

\* loopManager.cycleFocus(direction) with the listener.
CycleFocusIn(m, direction, content) ==
  LET n == Len(GetLoops(m.loops, FALSE))
  IN  EmitChange([m EXCEPT !.focusedIndex = IF n = 0 THEN 0 ELSE CycleIndex(@, direction, n)],
                 content)

\* Lines 402-407; after done() the instance is dropped, so its other fields
\* are put back to what the next instance starts with.
Close(m) ==
  [DisposeSessionIfEphemeral(m) EXCEPT
     !.subscribed = FALSE, !.activeLoopId = NULL, !.view = "pty", !.confirm = NoConfirm,
     !.footerMessage = NULL, !.running = <<>>,
     !.textLoading = FALSE, !.textViewLines = NoLines, !.fetches = <<>>, !.textCommand = <<>>,
     !.textScroll = 0]

\* focused?.directory ?? process.env.HOME ?? process.cwd()
ExecCwd(m) == IF HasFocused(m) THEN Coalesce(FocusedLoop(m).directory, Home) ELSE Home

\* runAction up to its exec (lines 382-388).
RunAction(m0, label, command) ==
  LET m == GetFocusedIn([m0 EXCEPT !.footerMessage = Dots(label)])
  IN  [m EXCEPT !.effects = Append(@, Executed(command, ExecCwd(m))),
                !.running = Append(@, label)]

\* runTextView up to its exec (lines 177-188).
RunTextView(m0, title, command) ==
  LET m == GetFocusedIn([m0 EXCEPT !.view = IF title = "History" THEN "history" ELSE "diff",
                                   !.textLoading = TRUE,
                                   !.textViewLines = NoLines,
                                   !.textScroll = 0,
                                   !.footerMessage = NULL])
  IN  [m EXCEPT !.effects = Append(@, Executed(command, ExecCwd(m))),
                !.fetches = Append([i \in 1..Len(@) |-> [@[i] EXCEPT !.latest = FALSE]],
                                   Fetch(command)),
                !.textCommand = command]

\* Mutation of AfterFetch: the result of a call that is no longer the latest
\* is dropped.
AfterFetchIfLatest(m, k, out) ==
  IF m.fetches[k].latest
  THEN [m EXCEPT !.textViewLines = OutputLines(m.fetches[k].command, out),
                 !.textLoading = FALSE,
                 !.fetches = RemoveAt(@, k)]
  ELSE [m EXCEPT !.fetches = RemoveAt(@, k)]

\* runTextView after its exec (lines 189-200), for the k-th suspended call.
AfterFetch(m, k, out) ==
  [m EXCEPT !.textViewLines = OutputLines(m.fetches[k].command, out),
            !.textLoading = FALSE,
            !.fetches = RemoveAt(@, k)]

\* Mutation of IsAffirmative: any key confirms.
AnyKeyAffirms(data) == TRUE

\* Line 227.
IsAffirmative(data) == data \in {"y", "Y"}

\* Lines 295-378: the action keys, in the terminal view with nothing pending.
HandleAction(m0, data, content) ==
  LET m == GetFocusedIn(m0)
  IN  IF ~HasFocused(m) THEN m
      ELSE
        LET focused == FocusedLoop(m)
            isPrimary == focused.id = PRIMARY
            cliId == ResolveLoopIdForCli(focused, content)
            r == m
            cwd == Coalesce(focused.worktree, focused.directory)
        IN  CASE data = "s" ->
                   [r EXCEPT !.confirm =
                               [action |-> "stop", label |-> "Stop",
                                command |-> IF isPrimary THEN <<"loops", "stop">>
                                            ELSE <<"loops", "stop", Coalesce(cliId, focused.id)>>],
                             !.footerMessage = NULL]
              [] data = "m" ->
                   IF isPrimary
                   THEN [r EXCEPT !.footerMessage = "Merge not available for primary loop"]
                   ELSE RunAction(r, "Merge", <<"loops", "merge", Coalesce(cliId, focused.id)>>)
              [] data = "d" ->
                   IF isPrimary
                   THEN [r EXCEPT !.footerMessage =
                                    "Discard not available for primary loop (use stop)"]
                   ELSE [r EXCEPT !.confirm =
                                    [action |-> "discard", label |-> "Discard",
                                     command |-> <<"loops", "discard", "--yes",
                                                   Coalesce(cliId, focused.id)>>],
                                  !.footerMessage = NULL]
              [] data = "r" ->
                   IF ~Truthy(cliId) THEN [r EXCEPT !.footerMessage = UnresolvedMsg]
                   ELSE RunAction(r, "Retry", <<"loops", "retry", cliId>>)
              [] data = "H" ->
                   IF ~Truthy(cliId) THEN [r EXCEPT !.footerMessage = UnresolvedMsg]
                   ELSE RunTextView(r, "History", <<"loops", "history", cliId>>)
              [] data = "D" ->
                   IF ~Truthy(cliId) THEN [r EXCEPT !.footerMessage = UnresolvedMsg]
                   ELSE RunTextView(r, "Diff", <<"loops", "diff", cliId>>)
              [] data = "a" ->
                   IF Truthy(cwd) THEN Close(r)
                   ELSE [r EXCEPT !.footerMessage = "No directory/worktree available to attach"]
              [] OTHER -> r

\* Lines 203-379.
HandleInput(m, data, content) ==
  IF data = "escape"
  THEN IF m.confirm # NoConfirm
       THEN [m EXCEPT !.confirm = NoConfirm, !.footerMessage = "Cancelled"]
       ELSE IF m.view # "pty" THEN [m EXCEPT !.view = "pty", !.textScroll = 0]
       ELSE Close(m)
  ELSE IF m.confirm # NoConfirm
  THEN IF IsAffirmative(data)
       THEN RunAction([m EXCEPT !.confirm = NoConfirm], m.confirm.label, m.confirm.command)
       ELSE IF data \in {"n", "N"}
       THEN [m EXCEPT !.confirm = NoConfirm, !.footerMessage = "Cancelled"]
       ELSE m
  ELSE IF m.view # "pty"
  THEN IF data = "q" THEN [m EXCEPT !.view = "pty", !.textScroll = 0]
       ELSE IF data \in ScrollKeys
       THEN [m EXCEPT !.textScroll = ScrollTo(@, m.textViewLines.count, data)]
       ELSE m
  ELSE IF data \in {"shift+up", "shift+down"} THEN m
  ELSE IF data = "left" THEN CycleFocusIn(m, 0 - 1, content)
  ELSE IF data = "right" THEN CycleFocusIn(m, 1, content)
  ELSE HandleAction(m, data, content)

\* Lines 84-106: a fresh instance.
Constructor(m, content) ==
  EnsureFocusedSession(
    [m EXCEPT !.subscribed = TRUE, !.activeLoopId = NULL, !.session = NoSession,
              !.sessionEphemeral = FALSE, !.view = "pty", !.confirm = NoConfirm,
              !.footerMessage = NULL, !.running = <<>>,
              !.textLoading = FALSE, !.textViewLines = NoLines, !.fetches = <<>>,
              !.textCommand = <<>>, !.textScroll = 0],
    content)

\* The followers alive after the effects of a step.
RemoveFirst(q, x) ==
  LET hits == {i \in 1..Len(q) : q[i] = x}
  IN  IF hits = {} THEN q
      ELSE RemoveAt(q, CHOOSE i \in hits : \A j \in hits : i <= j)

RECURSIVE FollowersAfter(_, _)
FollowersAfter(live, effects) ==
  IF effects = <<>> THEN live
  ELSE LET e == Head(effects)
       IN  FollowersAfter(IF e.op = "spawn" THEN Append(live, e.session)
                          ELSE IF e.op = "dispose" THEN RemoveFirst(live, e.session)
                          ELSE live,
                          Tail(effects))

\* The loop manager's collection and cursor and the overlay's fields after a
\* handler that took Machine to m, and the followers alive after its effects.
OverlayFields(m) ==
  /\ loops' = m.loops
  /\ focusedIndex' = m.focusedIndex
  /\ subscribed' = m.subscribed
  /\ activeLoopId' = m.activeLoopId
  /\ session' = m.session
  /\ sessionEphemeral' = m.sessionEphemeral
  /\ view' = m.view
  /\ confirm' = m.confirm
  /\ footerMessage' = m.footerMessage
  /\ running' = m.running
  /\ followers' = FollowersAfter(followers, m.effects)

\* The step's history with every effect of the handler, the runs of the
\* listeners among them.
OverlayBecomes(m) ==
  /\ OverlayFields(m)
  /\ lastEffects' = m.effects

\* What a handler did to sessions, processes and files: its effects without
\* the runs of the listeners.
SessionEffects(effects) ==
  LET Acts(e) == e.op # "notify" IN SelectSeq(effects, Acts)

\* The state after a handler that took Machine to m and called no poll.  The
\* history of the loop manager's specifications (lastOp, lastRekeyed,
\* lastEmits, lastWellFormed) is not kept here, and of the handler's effects
\* those on sessions, processes and files are.
Becomes(m) ==
  /\ OverlayFields(m)
  /\ lastEffects' = SessionEffects(m.effects)
  /\ UNCHANGED <<pollVars, lastOp, lastRekeyed, lastEmits, lastWellFormed>>
  /\ UNCHANGED textVars

\* The same state with the runs of the listeners kept in the history.
Heard(m) ==
  /\ OverlayBecomes(m)
  /\ UNCHANGED <<pollVars, lastOp, lastRekeyed, lastEmits, lastWellFormed>>
  /\ UNCHANGED textVars

\* The text buffer after a handler that took Machine to m.
TextBecomes(m) ==
  /\ textLoading' = m.textLoading
  /\ textViewLines' = m.textViewLines
  /\ fetches' = m.fetches
  /\ textCommand' = m.textCommand
  /\ textScroll' = m.textScroll

\* /ralph (widget.ts lines 264-291): an overlay is constructed if a loop is
\* focused.
OverlayOpens ==
  /\ ~subscribed
  /\ HasFocused(Machine)
  /\ \E content \in ContentsFor(loops) :
       \E m \in {Constructor(GetFocusedIn(Machine), content)} :
         Becomes(m)

KeyPressed ==
  /\ subscribed
  /\ \E data \in Keys :
       \E content \in IF data \in ResolvingKeys THEN ContentsFor(loops) ELSE {NULL} :
       \E m \in {HandleInput(Machine, data, content)} :
         /\ Len(m.running) <= MaxRunning
         /\ Becomes(m)

\* A suspended runAction gets its result (lines 389-396).
CommandReturns ==
  \E k \in 1..Len(running) : \E code \in {0, 1} :
    LET label == running[k]
        m == [Machine EXCEPT !.running = RemoveAt(@, k),
                             !.footerMessage = IF code = 0 THEN Ok(label) ELSE Failed(label)]
    IN  Becomes(m)

\* upsertToolLoop with the overlay listening.
OverlayUpsert ==
  \E loop \in ToolStarts : \E content \in ContentsFor(loops) :
    \E m \in {EmitChange([Machine EXCEPT
                            !.loops = UpsertResult(loops, loop, 0),
                            !.focusedIndex = UpsertFocus(loops, loop, focusedIndex)],
                         content)} :
      Becomes(m)

\* mergePolled at the end of a poll, with the overlay listening.
OverlayMerge ==
  \E polled \in OverlayLists : \E r \in {MergeResult(loops, polled, 0)} :
    \E content \in ContentsFor(r.loops) :
      \E m \in {EmitChange([Machine EXCEPT
                              !.loops = r.loops,
                              !.focusedIndex = ClampFocus(r.loops, focusedIndex)],
                           content)} :
        Becomes(m)

\* ------------------------------------------------------------------------
\* The listeners of the loop manager
\* ------------------------------------------------------------------------
\* /ralph, with the history of the listeners.
OpensHeard ==
  /\ ~subscribed
  /\ HasFocused(Machine)
  /\ \E content \in ContentsFor(loops) :
       \E m \in {Constructor(GetFocusedIn(Machine), content)} :
         Heard(m)

\* The keys that move the focus or close the overlay.
FocusKeys == {"left", "right", "q", "escape"}

FocusKeyHeard ==
  /\ subscribed
  /\ \E data \in FocusKeys : \E content \in ContentsFor(loops) :
       \E m \in {HandleInput(Machine, data, content)} :
         Heard(m)

\* upsertToolLoop, with the history of the listeners.
UpsertHeard ==
  \E loop \in ToolStarts : \E content \in ContentsFor(loops) :
    \E m \in {EmitChange([Machine EXCEPT
                            !.loops = UpsertResult(loops, loop, 0),
                            !.focusedIndex = UpsertFocus(loops, loop, focusedIndex)],
                         content)} :
      Heard(m)

\* Mutation of MergeHeard: the listeners run before the merge is applied.
MergeHeardEmitsFirst ==
  \E polled \in OverlayLists : \E r \in {MergeResult(loops, polled, 0)} :
    \E content \in ContentsFor(r.loops) :
      \E m \in {EmitChange(Machine, content)} :
        Heard([m EXCEPT !.loops = r.loops,
                        !.focusedIndex = ClampFocus(r.loops, m.focusedIndex)])

\* mergePolled at the end of a poll, with the history of the listeners.
MergeHeard ==
  \E polled \in OverlayLists : \E r \in {MergeResult(loops, polled, 0)} :
    \E content \in ContentsFor(r.loops) :
      \E m \in {EmitChange([Machine EXCEPT
                              !.loops = r.loops,
                              !.focusedIndex = ClampFocus(r.loops, focusedIndex)],
                           content)} :
        Heard(m)

\* ------------------------------------------------------------------------
\* The overlay with its text buffer
\* ------------------------------------------------------------------------
\* /ralph, with the text buffer of the new instance.
TextOpens ==
  /\ ~subscribed
  /\ HasFocused(Machine)
  /\ \E content \in ContentsFor(loops) :
       \E m \in {Constructor(GetFocusedIn(Machine), content)} :
         /\ OverlayBecomes(m)
         /\ TextBecomes(m)
         /\ UNCHANGED <<pollVars, lastOp, lastRekeyed, lastEmits, lastWellFormed>>

\* handleInput, with the text buffer.
TextKeyPressed ==
  /\ subscribed
  /\ \E data \in Keys \cup ScrollKeys :
       \E content \in IF data \in ResolvingKeys THEN ContentsFor(loops) ELSE {NULL} :
       \E m \in {HandleInput(Machine, data, content)} :
         /\ Len(m.running) <= MaxRunning
         /\ Len(m.fetches) <= MaxFetches
         /\ OverlayBecomes(m)
         /\ TextBecomes(m)
         /\ UNCHANGED <<pollVars, lastOp, lastRekeyed, lastEmits, lastWellFormed>>

\* A suspended runTextView gets its result (lines 189-200).
FetchReturns ==
  \E k \in 1..Len(fetches) : \E out \in FetchOutcomes :
    \E m \in {AfterFetch(Machine, k, out)} :
      /\ OverlayBecomes(m)
      /\ TextBecomes(m)
      /\ UNCHANGED <<pollVars, lastOp, lastRekeyed, lastEmits, lastWellFormed>>

\* ------------------------------------------------------------------------
\* The overlay with the poll scheduler
\* ------------------------------------------------------------------------
\* A suspended runAction gets its result and goes on to its poll() call
\* (lines 389-398); what follows that await touches no field.
ActionReturns ==
  \E k \in 1..Len(running) : \E code \in {0, 1} :
    \E m \in {[Machine EXCEPT !.running = RemoveAt(@, k),
                              !.footerMessage = IF code = 0 THEN Ok(running[k])
                                                ELSE Failed(running[k])]} :
      /\ OverlayBecomes(m)
      /\ PollCall
      /\ lastRekeyed' = <<>>
      /\ lastEmits' = 0
      /\ lastWellFormed' = 0
      /\ UNCHANGED textVars
      /\ UNCHANGED pollTimer

\* The keys that start an external action or change the view.
ActionViewKeys == {"m", "r", "H", "q"}

\* handleInput for those keys.
ActionKeyPressed ==
  /\ subscribed
  /\ \E data \in ActionViewKeys :
       \E content \in IF data \in ResolvingKeys THEN ContentsFor(loops) ELSE {NULL} :
       \E m \in {HandleInput(Machine, data, content)} :
         /\ Len(m.running) <= MaxRunning
         /\ Becomes(m)

\* An exec of a suspended poll returns and the poll does not end in a merge.
PollGoesOn == ExecReturns /\ lastOp' # "pollMerged"

\* The last exec of a suspended poll returns and the poll ends in its merge
\* (lines 139-166), with the overlay listening.
PollMergesHeard ==
  \E k \in 1..Len(polls) : \E out \in ExecOutcomes :
    LET p == polls[k]
        dir == p.dirs[p.pos]
        parsed == IF out.code = 0 THEN ParseLoopsJson(out.stdout, 0)
                  ELSE [ok |-> FALSE, loops |-> <<>>]
        allParsed == IF parsed.ok THEN p.allParsed \o TagDirectory(parsed.loops, dir)
                     ELSE p.allParsed
        anySuccess == p.anySuccess \/ out.code = 0
        wellFormed == p.wellFormed + (IF parsed.ok THEN 1 ELSE 0)
    IN  /\ ~out.throws
        /\ p.pos = Len(p.dirs)
        /\ anySuccess
        /\ \E r \in {MergeResult(loops, DedupById(allParsed), 0)} :
             \E content \in IF subscribed THEN ContentsFor(r.loops) ELSE {NULL} :
               \E m \in {EmitChange([Machine EXCEPT
                                       !.loops = r.loops,
                                       !.focusedIndex = ClampFocus(r.loops, focusedIndex)],
                                    content)} :
                 /\ OverlayBecomes(m)
                 /\ lastRekeyed' = r.rekeyed
        /\ consecutivePollFailures' = 0
        /\ lastPollError' = NULL
        /\ pollInFlight' = FlagAfterPoll
        /\ polls' = RemoveAt(polls, k)
        /\ lastOp' = "pollMerged"
        /\ lastEmits' = 1
        /\ lastWellFormed' = wellFormed
        /\ UNCHANGED textVars
        /\ UNCHANGED pollTimer

\* ------------------------------------------------------------------------
\* Specification
\* ------------------------------------------------------------------------
Init ==
  /\ loops = <<>>
  /\ focusedIndex = 0
  /\ pollTimer = FALSE
  /\ pollInFlight = FALSE
  /\ consecutivePollFailures = 0
  /\ lastPollError = NULL
  /\ polls = <<>>
  /\ lastOp = "init"
  /\ lastRekeyed = <<>>
  /\ lastEmits = 0
  /\ lastWellFormed = 0
  /\ subscribed = FALSE
  /\ activeLoopId = NULL
  /\ session = NoSession
  /\ sessionEphemeral = FALSE
  /\ view = "pty"
  /\ confirm = NoConfirm
  /\ footerMessage = NULL
  /\ running = <<>>
  /\ followers = <<>>
  /\ lastEffects = <<>>
  /\ textLoading = FALSE
  /\ textViewLines = NoLines
  /\ fetches = <<>>
  /\ textCommand = <<>>
  /\ textScroll = 0

\* The reconciliation engine: start calls and merges of every candidate list.
Next ==
  \/ MergePolled
  \/ UpsertToolLoop

Spec == Init /\ [][Next]_vars

\* The focus tracker: the focus operations interleaved with start calls and
\* merges.
NextFocus ==
  \/ MergePolledShort
  \/ UpsertToolLoop
  \/ GetFocused
  \/ CycleFocus
  \/ SetFocusById

SpecFocus == Init /\ [][NextFocus]_vars

\* The poll scheduler: polls on demand and on the timer, interleaved with
\* start calls at the awaits.  polls[k].wellFormed is history: the directories
\* so far whose output parsed.
NextPoll ==
  \/ UpsertToolLoop
  \/ PollOnDemand
  \/ StartPolling
  \/ StopPolling
  \/ TimerTick
  \/ ExecReturns

SpecPoll == Init /\ [][NextPoll]_vars

\* The overlay: keys, command results, and the start calls and merges it
\* hears of while it is open or closed.
NextOverlay ==
  \/ OverlayOpens
  \/ KeyPressed
  \/ CommandReturns
  \/ OverlayUpsert
  \/ OverlayMerge

SpecOverlay == Init /\ [][NextOverlay]_vars

\* The listeners: the overlay opened, moved and closed, start calls and
\* merges, each step with the runs of the listeners in its history.
NextNotify ==
  \/ OpensHeard
  \/ FocusKeyHeard
  \/ UpsertHeard
  \/ MergeHeard

SpecNotify == Init /\ [][NextNotify]_vars

\* The overlay with its text buffer: keys, the results of commands and of
\* history and diff fetches in any order, and start calls.
NextText ==
  \/ TextOpens
  \/ TextKeyPressed
  \/ FetchReturns
  \/ CommandReturns
  \/ OverlayUpsert

SpecText == Init /\ [][NextText]_vars

\* The overlay with the poll scheduler: the keys that start an action or
\* change the view, the results of commands each followed by the poll() call,
\* and the timer's polls.
NextAction ==
  \/ OverlayOpens
  \/ ActionKeyPressed
  \/ ActionReturns
  \/ StartPolling
  \/ TimerTick
  \/ PollGoesOn
  \/ PollMergesHeard

SpecAction == Init /\ [][NextAction]_vars

\* Merges of candidates that differ in their worktree.
NextWorktree == MergePolledWorktrees

SpecWorktree == Init /\ [][NextWorktree]_vars

\* Polls whose output differs in the directory-like fields of its records.
NextParse ==
  \/ PollOnDemand
  \/ ExecReturnsPaths

SpecParse == Init /\ [][NextParse]_vars

\* What lastOp is after a step of ExecReturns.
PollStepOps == {"pollThrew", "pollExec", "pollFailed", "pollMerged"}

\* A step of ExecReturns, told by the history variable: ExecReturns is enabled
\* exactly when a poll is suspended, and only it sets lastOp to one of
\* PollStepOps.
ExecCameBack == polls # <<>> /\ lastOp' \in PollStepOps

\* The same with every issued exec coming back: pi.exec is given a timeout
\* (line 116), so it resolves or rejects.
SpecPollFair == SpecPoll /\ WF_lastOp(ExecCameBack)

\* ------------------------------------------------------------------------
\* Properties
\* ------------------------------------------------------------------------
Range(q) == {q[i] : i \in 1..Len(q)}

\* The identity under which a record keyed id is found after a merge that
\* re-keyed the identities in rekeyed.
PostId(id, rekeyed) == IF id \in Range(rekeyed) THEN PRIMARY ELSE id

RecordOf(ls, id) == ls[CHOOSE j \in 1..Len(ls) : ls[j].id = id]

\* The identities of a candidate list, each at its first occurrence.
RECURSIVE FirstOccurrences(_)
FirstOccurrences(polled) ==
  IF polled = <<>> THEN <<>>
  ELSE LET before == FirstOccurrences(SubSeq(polled, 1, Len(polled) - 1))
           id == polled[Len(polled)].id
       IN  IF id \in Range(before) THEN before ELSE Append(before, id)

\* C1: a record whose source is "tool" never has removed = TRUE, whatever
\* merges have omitted its identity.
ToolLoopNeverRemoved ==
  \A i \in 1..Len(loops) : loops[i].source = "tool" => ~loops[i].removed

\* A merge has just run that did not name a tool-started record (its progress
\* fields are still those of the start call) and left it active.
ToolLoopOmittedByMerge ==
  /\ lastOp = "mergePolled"
  /\ \E i \in 1..Len(loops) :
       loops[i].source = "tool" /\ loops[i].iteration = 0 /\ ~loops[i].removed
  /\ \E i \in 1..Len(loops) : loops[i].removed

\* What the re-key of the record at position i of ls must have produced in
\* the merge result r, polled being the candidate list.
Rekeyed(ls, i, polled, r) ==
  /\ r.rekeyed = <<ls[i].id>>
  /\ ls[i].id \notin IdSet(r.loops)
  /\ \E j \in 1..Len(r.loops) :
       /\ r.loops[j].id = PRIMARY
       /\ r.loops[j].source = "tool"
       /\ r.loops[j].ptySession = ls[i].ptySession
  /\ Len(r.loops) = Len(ls) + Cardinality((Range(FirstOccurrences(polled)) \ IdSet(ls)) \ {PRIMARY})

\* Candidate k of polled is "(primary)" in the directory of the tool-started
\* "primary-" record at position i of ls, and ls has no "(primary)" record.
RekeyCase(ls, i, polled, k) ==
  /\ polled[k].id = PRIMARY
  /\ PRIMARY \notin IdSet(ls)
  /\ ls[i].source = "tool"
  /\ StartsWithPrimaryDash(ls[i].id)
  /\ ls[i].directory = polled[k].directory

\* C2 as stated: whenever a merge has a "(primary)" candidate in directory d,
\* no "(primary)" record exists and a tool-started "primary-" record has
\* directory d, the merge re-keys that record.
RekeyAlways ==
  \A polled \in PolledLists : \A k \in 1..Len(polled) : \A i \in 1..Len(loops) :
    RekeyCase(loops, i, polled, k) => Rekeyed(loops, i, polled, MergeResult(loops, polled, 0))

\* C2 as amended: the same, provided the candidate is the first "(primary)"
\* candidate of the list, the record is the only tool-started "primary-"
\* record in that directory, and no candidate carries the identity of a
\* tool-started "primary-" record.
RekeyWhenUnambiguous ==
  \A polled \in PolledLists : \A k \in 1..Len(polled) : \A i \in 1..Len(loops) :
    ( /\ RekeyCase(loops, i, polled, k)
      /\ \A m \in 1..(k - 1) : polled[m].id # PRIMARY
      /\ \A i2 \in 1..Len(loops) : RekeyCase(loops, i2, polled, k) => i2 = i
      /\ \A m \in 1..Len(polled) : \A i2 \in 1..Len(loops) :
           (loops[i2].source = "tool" /\ StartsWithPrimaryDash(loops[i2].id))
             => polled[m].id # loops[i2].id )
    => Rekeyed(loops, i, polled, MergeResult(loops, polled, 0))

\* A merge has just re-keyed the tool-started record "primary-x" to "(primary)";
\* it still carries its session.
RekeyHappened ==
  /\ lastOp = "mergePolled"
  /\ lastRekeyed = <<"primary-x">>
  /\ \E j \in 1..Len(loops) :
       loops[j].id = PRIMARY /\ loops[j].source = "tool" /\ loops[j].ptySession = "s1"
  /\ "primary-x" \notin IdSet(loops)

\* C3: a merge leaves source and ptySession of every record it found as they
\* were (the re-keyed record included), and no step turns a tool-started
\* record into a discovered one.
ProvenanceAndSessionKept ==
  [][\A i \in 1..Len(loops) :
       LET old == loops[i]
           id == PostId(old.id, lastRekeyed')
       IN  /\ lastOp' = "mergePolled" =>
                /\ id \in IdSet(loops')
                /\ RecordOf(loops', id).source = old.source
                /\ RecordOf(loops', id).ptySession = old.ptySession
           /\ old.source = "tool" =>
                /\ id \in IdSet(loops')
                /\ RecordOf(loops', id).source = "tool"]_vars

\* A merge has just updated the tool-started record "primary-x" from a
\* candidate of the same identity (which carries source "discovered" and no
\* session): the record took the candidate's progress and kept its session.
ToolLoopUpdatedByMerge ==
  /\ lastOp = "mergePolled"
  /\ \E i \in 1..Len(loops) :
       /\ loops[i].id = "primary-x"
       /\ loops[i].iteration = 1
       /\ loops[i].source = "tool"
       /\ loops[i].ptySession = "s1"

\* Two collections ignoring lastSeenAt.
SameButSeen(a, b) ==
  /\ Len(a) = Len(b)
  /\ \A i \in 1..Len(a) : [a[i] EXCEPT !.lastSeenAt = 0] = [b[i] EXCEPT !.lastSeenAt = 0]

\* C4: merging the same candidate list a second time changes nothing (records,
\* order, field values other than lastSeenAt).
MergeIdempotent ==
  \A polled \in PolledLists :
    LET once == MergeResult(loops, polled, 0).loops
        twice == MergeResult(once, polled, 0).loops
    IN  SameButSeen(once, twice)

\* C5: no two records of the collection share an identity.
IdentitiesUnique ==
  \A i, j \in 1..Len(loops) : loops[i].id = loops[j].id => i = j

\* A merge with a re-key has run and the collection holds several records.
SeveralRecordsAfterRekey ==
  /\ lastOp = "mergePolled"
  /\ lastRekeyed # <<>>
  /\ Len(loops) >= 2

\* C6: a record whose directory is an absolute path before a merge has an
\* absolute path after it.
AbsoluteDirectoryKept ==
  \A polled \in PolledLists :
    LET r == MergeResult(loops, polled, 0)
    IN  \A i \in 1..Len(loops) :
          IsAbsPath(loops[i].directory) =>
            LET id == PostId(loops[i].id, r.rekeyed)
            IN  id \in IdSet(r.loops) /\ IsAbsPath(RecordOf(r.loops, id).directory)

\* C7: after a merge every discovered record the candidates do not name is in
\* the collection with removed = TRUE, and every record the candidates name
\* has removed = FALSE.
MergeSetsRemoved ==
  \A polled \in PolledLists :
    LET r == MergeResult(loops, polled, 0).loops
        named == Range(FirstOccurrences(polled))
    IN  /\ \A i \in 1..Len(loops) :
             (loops[i].source = "discovered" /\ loops[i].id \notin named) =>
               (loops[i].id \in IdSet(r) /\ RecordOf(r, loops[i].id).removed)
        /\ \A j \in 1..Len(r) : r[j].id \in named => ~r[j].removed

\* A merge has just run; it left one discovered record removed and another
\* active.
RemovedAndActiveAfterMerge ==
  /\ lastOp = "mergePolled"
  /\ \E i, j \in 1..Len(loops) :
       /\ loops[i].source = "discovered" /\ loops[i].removed
       /\ loops[j].source = "discovered" /\ ~loops[j].removed

\* C8: no step drops a record: every record is found afterwards under its
\* identity (under "(primary)" if the step re-keyed it), and the collection
\* never gets shorter.
NoRecordDropped ==
  [][/\ Len(loops') >= Len(loops)
     /\ \A i \in 1..Len(loops) : PostId(loops[i].id, lastRekeyed') \in IdSet(loops')]_vars

\* A merge has just run and the collection still holds the removed record.
RemovedRecordKept ==
  /\ lastOp = "mergePolled"
  /\ Len(loops) >= 2
  /\ \E i \in 1..Len(loops) : loops[i].removed /\ loops[i].id = "b"

\* C9: after a merge the identities known before keep their relative order
\* and come first; the identities inserted by the merge follow in the order
\* of their first occurrence among the candidates.
OrderStable ==
  \A polled \in PolledLists :
    LET pre == Ids(loops)
        post == Ids(MergeResult(loops, polled, 0).loops)
        WasKnown(id) == id \in Range(pre)
        IsNew(id) == id \notin Range(pre)
        StillThere(id) == id \in Range(post)
    IN  /\ SelectSeq(post, WasKnown) = SelectSeq(pre, StillThere)
        /\ post = SelectSeq(post, WasKnown) \o SelectSeq(post, IsNew)
        /\ SelectSeq(post, IsNew) = SelectSeq(FirstOccurrences(polled), IsNew)

\* A merge has just appended "(primary)" behind two records known before,
\* which are not in alphabetical order.
NewIdentityAppended ==
  /\ lastOp = "mergePolled"
  /\ Ids(loops) = <<"primary-x", "b", PRIMARY>>

\* C10: at most one poll is in flight, and a poll() call made while one is
\* outstanding changes nothing: no exec is issued, no merge is made, nothing
\* is notified, the failure counter and the flag are as they were.
OnePollInFlight ==
  [][/\ Len(polls') <= 1
     /\ lastOp' = "pollRejected" =>
          /\ pollInFlight /\ pollInFlight'
          /\ Len(polls) = 1
          /\ lastEmits' = 0
          /\ UNCHANGED <<loops, focusedIndex, consecutivePollFailures, lastPollError, polls>>]_vars

\* A poll() call has just been turned away while an earlier poll over two
\* directories waits for its second exec.
PollRejectedWhileOutstanding ==
  /\ lastOp = "pollRejected"
  /\ pollInFlight
  /\ Len(polls) = 1
  /\ Len(polls[1].dirs) = 2
  /\ polls[1].pos = 2

\* C11: the in-flight flag is set exactly while a poll is suspended at an
\* exec, so a poll() call made after the previous poll returned is not turned
\* away; and every poll that set the flag clears it, however its execs end
\* (exit 0, non-zero exit, malformed output, a throw such as an abort).
FlagClearedWhenPollEnds ==
  /\ [](pollInFlight <=> polls # <<>>)
  /\ [][lastOp' = "pollRejected" => polls # <<>>]_vars
  /\ (pollInFlight ~> ~pollInFlight)

\* A poll over two directories has just ended because its second exec threw;
\* the flag is clear.
FlagClearAfterThrow ==
  /\ lastOp = "pollThrew"
  /\ lastWellFormed = 1
  /\ polls = <<>>
  /\ ~pollInFlight

\* C12: a poll that ends with no directory having returned well-formed output
\* (each exited non-zero or printed what is no JSON array) leaves the
\* collection and the focus cursor as they were, notifies nobody and adds one
\* to the failure counter.
TotalFailureLeavesCollection ==
  [][(polls # <<>> /\ polls' = <<>> /\ lastOp' # "pollThrew" /\ lastWellFormed' = 0) =>
       /\ UNCHANGED <<loops, focusedIndex>>
       /\ lastEmits' = 0
       /\ consecutivePollFailures' = consecutivePollFailures + 1]_vars

\* C13: the failure counter starts at 0, goes up by one when a poll ends in
\* failure (it returns null after having run), goes to 0 when a poll ends in
\* success, and is left alone by every other step, a poll() call turned away
\* by the guard included; lastPollError is null exactly when the counter is 0.
FailureAccounting ==
  /\ [](lastPollError = NULL <=> consecutivePollFailures = 0)
  /\ [][/\ lastOp' \in {"pollThrew", "pollFailed"} =>
             (/\ consecutivePollFailures' = consecutivePollFailures + 1
              /\ lastPollError' # NULL)
        /\ lastOp' = "pollMerged" =>
             (/\ consecutivePollFailures' = 0
              /\ lastPollError' = NULL)
        /\ lastOp' \notin {"pollThrew", "pollFailed", "pollMerged"} =>
             UNCHANGED <<consecutivePollFailures, lastPollError>>]_vars

\* A poll() call has just been turned away after two polls in a row failed:
\* the counter is still 2.
RejectedAfterTwoFailures ==
  /\ lastOp = "pollRejected"
  /\ consecutivePollFailures = 2
  /\ lastPollError = "all poll attempts failed"

\* C14: when a poll over several directories ends and some directory before
\* the last returned well-formed output, the poll ends in one merge pass and
\* every candidate of those directories is an active record afterwards,
\* whatever the exec of the last directory did (non-zero exit, malformed
\* output, a throw).
PartialFailureStillMerges ==
  [][(/\ polls # <<>>
      /\ polls' = <<>>
      /\ Len(polls[1].dirs) >= 2
      /\ polls[1].wellFormed >= 1) =>
       (/\ lastOp' = "pollMerged"
        /\ lastEmits' = 1
        /\ IdSet(polls[1].allParsed) \subseteq IdSet(GetLoops(loops', FALSE)))]_vars

\* The effects of kind op among those of the last step.
EffectsOf(effects, op) == LET IsOp(e) == e.op = op IN SelectSeq(effects, IsOp)

\* active[idx] of getFocused for the collection ls and the cursor idx.
FocusedIn(ls, idx) == GetLoops(ls, FALSE)[FocusedPos(ls, idx) + 1]

\* C15: dispose is called only on sessions the overlay spawned itself, and
\* the session marked ephemeral is never the caller's.
OwnedSessionNeverDisposed ==
  /\ \A i \in 1..Len(lastEffects) :
       lastEffects[i].op = "dispose" => lastEffects[i].session.owner = "overlay"
  /\ sessionEphemeral => session.owner = "overlay"

\* The overlay has just let go of the caller's session "s1" (the focus moved,
\* the focused record was re-keyed, the active set became empty or the overlay
\* was closed) without disposing anything.
OwnedSessionReleased ==
  /\ EffectsOf(lastEffects, "release") = <<Released(OwnedSession("s1"))>>
  /\ EffectsOf(lastEffects, "dispose") = <<>>

\* C16: at most one follower is alive; it is the attached session of an open
\* overlay whose attached identity is the focused one; and within a step a
\* dispose never comes after a spawn.
OneFollowerAlive ==
  /\ Len(followers) <= 1
  /\ followers # <<>> =>
       /\ subscribed
       /\ sessionEphemeral
       /\ session = followers[1]
       /\ Len(GetLoops(loops, FALSE)) > 0
       /\ FocusedIn(loops, focusedIndex).id = activeLoopId
  /\ \A i, j \in 1..Len(lastEffects) :
       (lastEffects[i].op = "spawn" /\ lastEffects[j].op = "dispose") => j < i

\* A step has just disposed the follower of one identity and then spawned the
\* follower of another.
FollowerReplaced ==
  \E i, j \in 1..Len(lastEffects) :
    /\ i < j
    /\ lastEffects[i].op = "dispose"
    /\ lastEffects[j].op = "spawn"
    /\ lastEffects[i].session.loopId # lastEffects[j].session.loopId
    /\ followers = <<lastEffects[j].session>>

\* C17: when a step leaves the overlay attached to another identity than
\* before, then: if the focused record is tool-started with a session, that
\* session is attached and no follower is spawned; otherwise, if the identity
\* resolves (the record's own, or for "(primary)" the non-empty content of the
\* file read), exactly one follower is spawned, for that identity, and it is
\* the attached, ephemeral session; otherwise nothing is attached, nothing is
\* spawned and the message is set.
AttachDecision ==
  [][(subscribed' /\ activeLoopId' # NULL /\ (~subscribed \/ activeLoopId' # activeLoopId)) =>
       LET f == FocusedIn(loops', focusedIndex')
           spawns == EffectsOf(lastEffects', "spawn")
           reads == EffectsOf(lastEffects', "read")
           resolved == IF f.id # PRIMARY THEN f.id
                       ELSE IF reads # <<>> /\ reads[1].content \notin {NULL, ""}
                       THEN reads[1].content
                       ELSE NULL
       IN  /\ f.id = activeLoopId'
           /\ IF f.source = "tool" /\ f.ptySession # NULL
              THEN /\ session' = OwnedSession(f.ptySession)
                   /\ ~sessionEphemeral'
                   /\ spawns = <<>>
              ELSE IF resolved # NULL
              THEN /\ Len(spawns) = 1
                   /\ spawns[1].session.loopId = resolved
                   /\ session' = spawns[1].session
                   /\ sessionEphemeral'
              ELSE /\ spawns = <<>>
                   /\ session' = NoSession
                   /\ ~sessionEphemeral'
                   /\ footerMessage' = UnresolvedMsg]_vars

\* The focus has just come to "(primary)", a discovered record whose file
\* gave no identity: nothing is attached and the message is shown.
NothingAttachedForUnresolved ==
  /\ subscribed
  /\ activeLoopId = PRIMARY
  /\ EffectsOf(lastEffects, "read") # <<>>
  /\ EffectsOf(lastEffects, "spawn") = <<>>
  /\ session = NoSession
  /\ followers = <<>>
  /\ footerMessage = UnresolvedMsg

\* The keys of the properties: those of the model and the upper-case answers.
AllKeys == Keys \cup {"Y", "N"}

IsStopOrDiscard(e) == e.op = "exec" /\ e.command[2] \in {"stop", "discard"}

\* C18: a stop or discard command is executed only by the key y or Y while
\* a confirmation is pending, and it is the pending command; a key other than
\* y or Y that ends a pending confirmation executes nothing.
StopDiscardOnlyConfirmed ==
  /\ [](subscribed =>
         \A data \in AllKeys : \A content \in FileContents :
           LET m == HandleInput(Machine, data, content)
           IN  /\ \A i \in 1..Len(m.effects) :
                    IsStopOrDiscard(m.effects[i]) =>
                      /\ data \in {"y", "Y"}
                      /\ confirm # NoConfirm
                      /\ m.effects[i].command = confirm.command
               /\ (confirm # NoConfirm /\ m.confirm = NoConfirm /\ data \notin {"y", "Y"}) =>
                    EffectsOf(m.effects, "exec") = <<>>)
  /\ [][\A i \in 1..Len(lastEffects') :
          IsStopOrDiscard(lastEffects'[i]) =>
            /\ confirm # NoConfirm
            /\ lastEffects'[i].command = confirm.command
            /\ confirm' = NoConfirm]_vars

\* The confirmed stop of loop "b" has just been issued.
ConfirmedStopIssued ==
  /\ lastEffects = <<Executed(<<"loops", "stop", "b">>, "/q")>>
  /\ confirm = NoConfirm
  /\ running = <<"Stop">>
  /\ footerMessage = "Stop..."

\* C19: while a confirmation is pending, every key other than y and Y clears
\* it, and so does every step that changes the view or the attached (focused)
\* identity.
PendingClearedByAnythingElse ==
  /\ []((subscribed /\ confirm # NoConfirm) =>
         \A data \in AllKeys \ {"y", "Y"} : \A content \in FileContents :
           HandleInput(Machine, data, content).confirm = NoConfirm)
  /\ [][(confirm # NoConfirm /\ (view' # view \/ activeLoopId' # activeLoopId)) =>
          confirm' = NoConfirm]_vars

\* The keys that ask for an external command on the focused loop.
ActionKeys == {"s", "m", "d", "r", "H", "D"}

\* No exec and no spawn of the last step has "(primary)" in its command.
NoPlaceholderArgument ==
  \A i \in 1..Len(lastEffects) :
    lastEffects[i].op \in {"exec", "spawn"} =>
      \A k \in 1..Len(lastEffects[i].command) : lastEffects[i].command[k] # PRIMARY

\* The overlay takes action keys and the focused record is "(primary)".
PlaceholderFocused ==
  /\ subscribed
  /\ view = "pty"
  /\ confirm = NoConfirm
  /\ Len(GetLoops(loops, FALSE)) > 0
  /\ FocusedIn(loops, focusedIndex).id = PRIMARY

\* C20 as stated: no command and no follower gets "(primary)" as its
\* argument, and when "(primary)" does not resolve every action key is
\* blocked: nothing is executed, nothing is left pending, a message is shown.
PlaceholderNeverPassedAndBlocked ==
  /\ NoPlaceholderArgument
  /\ PlaceholderFocused =>
       \A data \in ActionKeys : \A content \in FileContents :
         ResolveLoopIdForCli(FocusedIn(loops, focusedIndex), content) = NULL =>
           LET m == HandleInput(Machine, data, content)
           IN  /\ EffectsOf(m.effects, "exec") = <<>>
               /\ m.confirm = NoConfirm
               /\ m.footerMessage # NULL

\* C20 as amended: no command and no follower gets "(primary)" as its
\* argument; for a focused "(primary)" that does not resolve, retry, history
\* and diff are blocked with the message; merge and discard are blocked with
\* a message whether it resolves or not; stop is not blocked: it is left
\* pending with a command that names no identity.
PlaceholderNeverPassed ==
  /\ NoPlaceholderArgument
  /\ PlaceholderFocused =>
       \A data \in ActionKeys : \A content \in FileContents :
         LET m == HandleInput(Machine, data, content)
             unresolved == ResolveLoopIdForCli(FocusedIn(loops, focusedIndex), content) = NULL
         IN  /\ (data \in {"r", "H", "D"} /\ unresolved) =>
                  /\ EffectsOf(m.effects, "exec") = <<>>
                  /\ m.confirm = NoConfirm
                  /\ m.footerMessage = UnresolvedMsg
             /\ data \in {"m", "d"} =>
                  /\ EffectsOf(m.effects, "exec") = <<>>
                  /\ m.confirm = NoConfirm
                  /\ m.footerMessage \in {"Merge not available for primary loop",
                                           "Discard not available for primary loop (use stop)"}
             /\ data = "s" =>
                  /\ EffectsOf(m.effects, "exec") = <<>>
                  /\ m.confirm.command = <<"loops", "stop">>

\* A retry has just been issued for the focused "(primary)" under the
\* identity read from the file.
RetryUnderResolvedIdentity ==
  /\ PlaceholderFocused
  /\ lastEffects = <<Executed(<<"loops", "retry", "real-1">>, "/p")>>
  /\ running = <<"Retry">>

\* The number of records not marked removed.
ActiveCount(ls) == Cardinality({i \in 1..Len(ls) : ~ls[i].removed})

\* C21: getFocused returns null exactly when no record is active; otherwise
\* the record it returns is in the collection and not removed, its position
\* is within 0..activeCount-1, and a getFocused call leaves the cursor there.
FocusedIsActiveOrNull ==
  /\ [](/\ FocusedOf(loops, focusedIndex) = NULL <=> ActiveCount(loops) = 0
        /\ ActiveCount(loops) > 0 =>
             /\ FocusedPos(loops, focusedIndex) \in 0..(ActiveCount(loops) - 1)
             /\ \E i \in 1..Len(loops) : loops[i] = FocusedIn(loops, focusedIndex)
             /\ ~FocusedIn(loops, focusedIndex).removed
             /\ FocusedIn(loops, focusedIndex).id = FocusedOf(loops, focusedIndex))
  /\ [][(lastOp' = "getFocused" /\ ActiveCount(loops) > 0) =>
          /\ focusedIndex' = FocusedPos(loops, focusedIndex)
          /\ loops' = loops]_vars

\* A merge has just marked a record removed that stands before the focused
\* one, so the focused record's position among the active records is not its
\* position in the collection.
FocusedBehindRemoved ==
  /\ lastOp = "mergePolled"
  /\ Len(loops) >= 2
  /\ loops[1].removed
  /\ FocusedOf(loops, focusedIndex) # NULL
  /\ FocusedOf(loops, focusedIndex) = loops[2].id

\* C22: with n >= 1 active records and getFocused reporting position p,
\* cycleFocus(+1) puts the cursor on (p+1) mod n and cycleFocus(-1) on
\* (p-1) mod n, so +1 followed by -1 is back on the record it started from;
\* with n = 0 the cursor becomes 0; every call emits one notification and
\* leaves the collection alone.
CycleFocusWraps ==
  /\ [](ActiveCount(loops) >= 1 =>
         /\ CycleIndex(focusedIndex, 1, ActiveCount(loops)) =
              (FocusedPos(loops, focusedIndex) + 1) % ActiveCount(loops)
         /\ CycleIndex(focusedIndex, 0 - 1, ActiveCount(loops)) =
              (FocusedPos(loops, focusedIndex) + ActiveCount(loops) - 1) % ActiveCount(loops)
         /\ FocusedIn(loops, CycleIndex(CycleIndex(focusedIndex, 1, ActiveCount(loops)),
                                        0 - 1, ActiveCount(loops)))
              = FocusedIn(loops, focusedIndex))
  /\ [][lastOp' = "cycleFocus" =>
          /\ lastEmits' = 1
          /\ loops' = loops
          /\ (ActiveCount(loops) = 0 => focusedIndex' = 0 /\ FocusedOf(loops', focusedIndex') = NULL)
          /\ (ActiveCount(loops) >= 1 =>
                focusedIndex' \in
                  {(FocusedPos(loops, focusedIndex) + 1) % ActiveCount(loops),
                   (FocusedPos(loops, focusedIndex) + ActiveCount(loops) - 1) % ActiveCount(loops)})]_vars

\* cycleFocus has just put the cursor on the last of three active records.
CycledToLastOfThree ==
  /\ lastOp = "cycleFocus"
  /\ ActiveCount(loops) = 3
  /\ focusedIndex = 2

\* Whether id is the identity of a record that is not removed.
IsActiveId(ls, id) == \E i \in 1..Len(ls) : ls[i].id = id /\ ~ls[i].removed

\* The number of active records standing before the active record id.
ActivePosition(ls, id) ==
  LET i == CHOOSE k \in 1..Len(ls) : ls[k].id = id /\ ~ls[k].removed
  IN  Cardinality({j \in 1..(i - 1) : ~ls[j].removed})

\* C23: setFocusById(id) for the identity of an active record puts the cursor
\* on that record's position among the active records and emits once; for an
\* identity that is absent or belongs to a removed record it changes neither
\* the cursor nor the collection and emits nothing.
SetFocusByIdEffect ==
  /\ [](\A id \in FocusIds :
          /\ IsActiveId(loops, id) =>
               FindIndexById(GetLoops(loops, FALSE), id) = ActivePosition(loops, id)
          /\ ~IsActiveId(loops, id) => FindIndexById(GetLoops(loops, FALSE), id) < 0)
  /\ [][lastOp' = "setFocusById" =>
          /\ loops' = loops
          /\ \/ /\ lastEmits' = 1
                /\ \E id \in FocusIds :
                     /\ IsActiveId(loops, id)
                     /\ focusedIndex' = ActivePosition(loops, id)
                     /\ FocusedOf(loops', focusedIndex') = id
             \/ /\ lastEmits' = 0
                /\ focusedIndex' = focusedIndex]_vars

\* setFocusById has just moved the cursor onto an active record that stands
\* behind a removed one.
FocusSetBehindRemoved ==
  /\ lastOp = "setFocusById"
  /\ lastEmits = 1
  /\ Len(loops) >= 3
  /\ loops[1].removed
  /\ focusedIndex = 1
  /\ FocusedOf(loops, focusedIndex) = loops[3].id

\* C24: a step that changes the collection (a merge pass, a start call) runs
\* the listeners exactly once, no step runs them twice, and what getLoops and
\* getFocused give inside the callback is the state the step ends in.
MergeNotifiesOnceAtEnd ==
  [][/\ Len(EffectsOf(lastEffects', "notify")) <= 1
     /\ loops' # loops => Len(EffectsOf(lastEffects', "notify")) = 1
     /\ \A i \in 1..Len(lastEffects') :
          lastEffects'[i].op = "notify" =>
            /\ lastEffects'[i].active = Ids(GetLoops(loops', FALSE))
            /\ lastEffects'[i].focused = FocusedOf(loops', focusedIndex')]_vars

\* A merge has just marked the focused "(primary)" removed and inserted "b":
\* the listeners ran once, saw "b" as the only active and the focused record,
\* and the overlay moved its follower to it.
ListenerSawMergedState ==
  /\ subscribed
  /\ Len(loops) = 2
  /\ loops[1].id = PRIMARY /\ loops[1].removed
  /\ EffectsOf(lastEffects, "notify") = <<Notified(loops, focusedIndex)>>
  /\ lastEffects[1].active = <<"b">>
  /\ lastEffects[1].focused = "b"
  /\ followers = <<FollowerSession("b", "/q")>>
  /\ EffectsOf(lastEffects, "spawn") = <<Spawned(FollowerSession("b", "/q"))>>

\* C26: while the overlay shows the history or the diff view and the fetch
\* issued on entering it has not come back, textLoading is set; once it has
\* come back, textLoading is clear and textViewLines is the output of that
\* fetch.
TextViewShowsItsFetch ==
  (subscribed /\ view \in {"history", "diff"}) =>
    IF \E i \in 1..Len(fetches) : fetches[i].latest
    THEN textLoading
    ELSE /\ ~textLoading
         /\ textViewLines.command = textCommand

\* C25: when an external action command completes, with whatever exit code,
\* the view stays as it is and a poll begins: an enumeration is issued in
\* that step, also when another poll is outstanding.
FreshPollAfterAction ==
  [][(subscribed' /\ Len(running') < Len(running)) =>
       /\ view' = view
       /\ lastOp' = "pollBegun"
       /\ Len(polls') = Len(polls) + 1]_vars

\* C27: a merge does not move the focus off a record that stays active: if
\* the identity focused before the merge is the identity of an active record
\* after it, that record is the focused one after it.
MergeKeepsFocusedIdentity ==
  [][(/\ lastOp' = "mergePolled"
      /\ FocusedOf(loops, focusedIndex) # NULL
      /\ IsActiveId(loops', FocusedOf(loops, focusedIndex))) =>
       FocusedOf(loops', focusedIndex') = FocusedOf(loops, focusedIndex)]_vars

\* C28: when a candidate matches an existing record, the record's worktree
\* after the merge is the candidate's if that is non-empty, and otherwise
\* (null or the empty string) the one the record had.
WorktreeReplacedOnlyByNonEmpty ==
  \A polled \in WorktreeLists : \A k \in 1..Len(polled) : \A i \in 1..Len(loops) :
    (/\ polled[k].id = loops[i].id
     /\ \A j \in 1..Len(polled) : polled[j].id = polled[k].id => j = k) =>
      RecordOf(MergeResult(loops, polled, 0).loops, loops[i].id).worktree =
        IF Truthy(polled[k].worktree) THEN polled[k].worktree ELSE loops[i].worktree

\* null, or a string beginning with "/".
NullOrAbsolute(s) == s = NULL \/ StartsWithSlash(s)

\* C29: for every output the exec of a suspended poll can come back with,
\* the directory and the worktree of every record parseLoopsJson makes of it
\* are null or begin with "/"; and so are those of every record that polls
\* have put into the collection.
ParsedPathsAbsoluteOrNull ==
  /\ \A k \in 1..Len(polls) : \A out \in PathOutcomes :
       \A i \in 1..Len(ParseLoopsJson(out.stdout, 0).loops) :
         /\ NullOrAbsolute(ParseLoopsJson(out.stdout, 0).loops[i].directory)
         /\ NullOrAbsolute(ParseLoopsJson(out.stdout, 0).loops[i].worktree)
  /\ \A i \in 1..Len(loops) :
       /\ NullOrAbsolute(loops[i].directory)
       /\ NullOrAbsolute(loops[i].worktree)

\* The positions of the records that stand for the default worker of the
\* directory d: "(primary)" found in d, or a "primary-" identity.
WorkerRecords(ls, d) ==
  {i \in 1..Len(ls) : \/ ls[i].id = PRIMARY /\ ls[i].directory = d
                      \/ StartsWithPrimaryDash(ls[i].id)}

\* One record stands for the worker, and it is tool-started with its session.
OneToolRecord(ls, d) ==
  /\ Cardinality(WorkerRecords(ls, d)) = 1
  /\ \A i \in WorkerRecords(ls, d) : ls[i].source = "tool" /\ ls[i].ptySession = "s1"

\* C30: the worker started in "/p" has one record, tool-started and with its
\* session, after its start call, whatever merges came before it (also one
\* that left a discovered "(primary)", active or removed), and after every
\* merge that follows the start call.
StartAndPollInEitherOrder ==
  [][/\ (lastOp' = "upsertToolLoop" /\ \A i \in 1..Len(loops) : loops[i].source # "tool") =>
          OneToolRecord(loops', "/p")
     /\ (lastOp' = "mergePolled" /\ OneToolRecord(loops, "/p")) =>
          OneToolRecord(loops', "/p")]_vars

\* The directory a command naming the record id of ls is meant for: the
\* record's directory, as runAction takes it of the focused record.
DirectoryFor(ls, id) == Coalesce(ls[FindIndexById(ls, id) + 1].directory, Home)

\* The record a confirmed stop or discard names.
NamesRecord(e, ls) ==
  /\ IsStopOrDiscard(e)
  /\ Len(e.command) >= 3
  /\ FindIndexById(ls, e.command[Len(e.command)]) >= 0

\* C31: a confirmed stop or discard that names a loop is executed in the
\* directory of that loop, whatever polls and start calls did to the focus
\* between the request key and the affirmative key.
ConfirmedActsOnRequestedLoop ==
  [][\A i \in 1..Len(lastEffects') :
       NamesRecord(lastEffects'[i], loops) =>
         lastEffects'[i].cwd = DirectoryFor(loops, lastEffects'[i].command[Len(lastEffects'[i].command)])]_vars

\* The same for the confirmations whose loop is still the focused one when
\* the affirmative key arrives.
ConfirmedActsWhereFocused ==
  [][\A i \in 1..Len(lastEffects') :
       (/\ NamesRecord(lastEffects'[i], loops)
        /\ FocusedOf(loops, focusedIndex) = lastEffects'[i].command[Len(lastEffects'[i].command)]) =>
         lastEffects'[i].cwd = DirectoryFor(loops, lastEffects'[i].command[Len(lastEffects'[i].command)])]_vars

\* Lines 119-133: allParsed of the suspended poll p after the exec of its
\* current directory came back with out.
AllParsedAfter(p, out) ==
  LET parsed == IF out.code = 0 THEN ParseLoopsJson(out.stdout, 0)
                ELSE [ok |-> FALSE, loops |-> <<>>]
  IN  IF parsed.ok THEN p.allParsed \o TagDirectory(parsed.loops, p.dirs[p.pos])
      ELSE p.allParsed

\* ls has an active record of the default worker of directory dir.
HasPrimaryIn(ls, dir) ==
  \E i \in 1..Len(ls) : ls[i].id = PRIMARY /\ ls[i].directory = dir /\ ~ls[i].removed

\* C32: when the last exec of a poll comes back and the round has enumerated
\* a "(primary)" worker in /p and another in /q, the collection after the
\* merge holds a record of the default worker of /p and one of /q.
DefaultWorkersStayDistinct ==
  \A k \in 1..Len(polls) : \A out \in ExecOutcomes :
    LET p == polls[k]
        all == AllParsedAfter(p, out)
    IN  (/\ p.pos = Len(p.dirs)
         /\ ~out.throws
         /\ HasPrimaryIn(all, "/p")
         /\ HasPrimaryIn(all, "/q")) =>
          LET after == MergeResult(loops, DedupById(all), 0).loops
          IN  HasPrimaryIn(after, "/p") /\ HasPrimaryIn(after, "/q")

\* The query of a directory failed: a non-zero exit, or output that is no
\* JSON array.
QueryFailed(out) == out.code # 0 \/ ~ParseLoopsJson(out.stdout, 0).ok

\* C33: when the last query of a poll fails after another directory's query
\* succeeded, the merge that ends the poll marks none of the records of the
\* failed directory removed.
FailedQueryRemovesNothing ==
  \A k \in 1..Len(polls) : \A out \in ExecOutcomes :
    LET p == polls[k]
        dir == p.dirs[p.pos]
    IN  (/\ p.pos = Len(p.dirs)
         /\ ~out.throws
         /\ p.anySuccess
         /\ QueryFailed(out)) =>
          LET after == MergeResult(loops, DedupById(AllParsedAfter(p, out)), 0).loops
          IN  \A i \in 1..Len(loops) :
                (loops[i].directory = dir /\ ~loops[i].removed) =>
                  \A j \in 1..Len(after) : after[j].id = loops[i].id => ~after[j].removed

\* C34: a merge that re-keys a record to "(primary)" leaves it at the
\* position it had, and a focus cursor that pointed at it still does.
RekeyKeepsPosition ==
  [][\A i \in 1..Len(lastRekeyed') :
       /\ FindIndexById(loops', PRIMARY) = FindIndexById(loops, lastRekeyed'[i])
       /\ FocusedOf(loops, focusedIndex) = lastRekeyed'[i] =>
            FocusedOf(loops', focusedIndex') = PRIMARY]_vars

\* C35: the scroll offset is never negative and never beyond the last
\* buffered line (0 for an empty buffer); a step that enters a text view or
\* returns to the terminal view leaves it 0.
ScrollWithinBuffer ==
  /\ [](textScroll >= 0 /\ textScroll <= Max(0, textViewLines.count - 1))
  /\ [][(view' # view /\ subscribed') => textScroll' = 0]_vars

\* Entering a text view and returning to the terminal view set the offset 0.
ScrollResetOnViewChange ==
  [][view' # view => textScroll' = 0]_vars

====
